---- MODULE Spec2Model ----
(***************************************************************************)
(* Daily Queue lifecycle of meli (src/src/lib/dailyApi.ts) over the tables *)
(* of the daily-queues migration (src/unnamed/part_000).                   *)
(*                                                                         *)
(* Every `await` on the store is one atomic step of a client call; the     *)
(* local variables a call keeps across awaits live in loc[p].  All rows    *)
(* belong to the one signed-in user (supabase.auth.getUser()).             *)
(***************************************************************************)
EXTENDS Integers, Sequences, FiniteSets, TLC

VARIABLES
  today,                \* what todayDate() returns (a day number)
  token,                \* whether getStoredSpotifyToken() yields a token
  items,                \* table items: the spotify ids that have a row
  daily_queues,         \* table daily_queues
  daily_queue_items,    \* table daily_queue_items
  daily_playlists,      \* table daily_playlists
  daily_playlist_items, \* table daily_playlist_items
  ratings,              \* table ratings of the user: item_id -> score
  pc,                   \* per client: the await a call is suspended at
  loc,                  \* per client: the call's local variables
  result,               \* per client: what the last call returned
  completeWrites,       \* history: number of "mark queue complete" updates applied
  roundScore,           \* the score of a round trip that rates every item alike
  ensured,              \* history: the last queue an ensureDailyQueue call returned
  scoresIn,             \* argument of a direct computeMood call
  moodOut,              \* its return value
  history,              \* the ratings the profile screen has loaded
  rankOut,              \* what computeTopArtists and computeTopGenres return for it
  bayesIn,              \* arguments of direct bayesianScore calls
  bayesOut,             \* their return values
  now,                  \* the clock (new Date()), in UTC, in units of a day's part
  tz,                   \* offset of the user's local time from UTC, in the same units
  ensuredDay,           \* history: <<local day, queue>> of every queue an ensure call returned
  insertFailed,         \* history: the queues whose playlist insert has failed
  screen                \* the daily screen: its React state and the await it is at

vars == <<today, token, items, daily_queues, daily_queue_items, daily_playlists,
          daily_playlist_items, ratings, pc, loc, result, completeWrites, ensured, roundScore,
          scoresIn, moodOut, history, rankOut, bayesIn, bayesOut, now, tz, ensuredDay,
          insertFailed, screen>>

ranker == <<history, rankOut, bayesIn, bayesOut>>

clock == <<now, tz>>

db == <<items, daily_queues, daily_queue_items, daily_playlists,
        daily_playlist_items, ratings>>

----
\* Bounds of the model

MaxLen == 4
MaxPool == 2
MaxRacePool == 1
MaxBuildPool == 11
MaxCount == 10
MaxHist == 2
MaxWide == 11
MaxTicks == 3

\* Program constants

QueueSize == 10
PlaylistThreshold == 7
BAYES_M == 3
TopArtists == 7
TopGenres == 10
MinScore == 1
MaxScore == 10

\* null of a text column or variable
Null == "null"
\* null or undefined of a number-valued column or variable (ids and scores are >= 1)
None == (0)
\* what a call returns: null, or nothing yet
NullResult == [kind |-> "null"]
Pending == [kind |-> "pending"]
Stamp == "ts"
User == "u1"
Procs == {1, 2}
\* One client
Caller == CHOOSE p \in Procs : TRUE
AllScores == MinScore..MaxScore
RaceScores == {2, 9}
\* the clock counts half days
UnitsPerDay == 2

\* new Date().toISOString().split('T')[0]: the date in UTC
todayDate(t) == t \div UnitsPerDay

\* The date on the user's wall clock
LocalDay(t, z) == (t + z) \div UnitsPerDay

Moods == {"hype", "bright", "chill", "moody", "mixed"}

Min(a, b) == IF a <= b THEN a ELSE b
Max(a, b) == IF a >= b THEN a ELSE b
Range(s) == {s[i] : i \in 1..Len(s)}

----
\* computeMood

RECURSIVE SumSeq(_)
SumSeq(s) == IF s = <<>> THEN 0 ELSE Head(s) + SumSeq(Tail(s))

\* n*n times the sum of (x - avg)^2, where avg = total / n
RECURSIVE SumSqDev(_, _, _)
SumSqDev(s, total, n) ==
  IF s = <<>> THEN 0
  ELSE (n * Head(s) - total) * (n * Head(s) - total) + SumSqDev(Tail(s), total, n)

\* A classifier that buckets by the mean before it looks at the spread.
computeMoodMeanFirst(scores) ==
  IF Len(scores) = 0 THEN "mixed"
  ELSE LET n == Len(scores)
           total == SumSeq(scores)
           sqdev == SumSqDev(scores, total, n)
       IN IF total >= 8 * n THEN "hype"
          ELSE IF 2 * total >= 13 * n THEN "bright"
          ELSE IF 4 * sqdev >= 25 * n * n * n THEN "mixed"
          ELSE IF 2 * total >= 9 * n THEN "chill"
          ELSE "moody"

\* A classifier without the empty-list default: 0/0 is NaN, every comparison with it
\* is false, and the last bucket is returned.
computeMoodNoDefault(scores) ==
  IF Len(scores) = 0 THEN "moody" ELSE computeMoodMeanFirst(scores)

\* avg = total/n; variance = sqdev/(n*n*n); stdDev >= 2.5 iff variance >= 25/4;
\* avg >= 6.5 iff 2*total >= 13*n; avg >= 4.5 iff 2*total >= 9*n.
computeMood(scores) ==
  IF Len(scores) = 0 THEN "mixed"
  ELSE LET n == Len(scores)
           total == SumSeq(scores)
           sqdev == SumSqDev(scores, total, n)
       IN IF 4 * sqdev >= 25 * n * n * n THEN "mixed"
          ELSE IF total >= 8 * n THEN "hype"
          ELSE IF 2 * total >= 13 * n THEN "bright"
          ELSE IF 2 * total >= 9 * n THEN "chill"
          ELSE "moody"

----
\* The store (PostgREST over the tables of src/unnamed/part_000)

\* .single(): the row when the query matches exactly one, otherwise no data
\* (a set holding the row, or the empty set)
SingleRow(S) == IF Cardinality(S) = 1 THEN S ELSE {}

\* the row of a non-empty .single() answer
Row(S) == CHOOSE r \in S : TRUE

\* .from('daily_queues').select('*').eq('user_id', user.id).eq('date', todayDate()).single()
TodayQueueRow == SingleRow({q \in daily_queues : q.user_id = User /\ q.date = today})

\* .from('daily_playlists').select('*').eq('queue_id', qid).single()
PlaylistRowOf(qid) == SingleRow({pl \in daily_playlists : pl.queue_id = qid})

\* .from('daily_queue_items').select(...).eq('queue_id', qid)
QueueItemsOf(qid) == {qi \in daily_queue_items : qi.queue_id = qid}

\* A store without the UNIQUE (user_id, date) constraint.
NoQueueUniqueness(user, date) == FALSE

\* UNIQUE (user_id, date) of daily_queues: an insert of a second row is refused
QueueUniqueViolation(user, date) ==
  \E q \in daily_queues : q.user_id = user /\ q.date = date

\* A store without the UNIQUE constraint on daily_playlists.queue_id.
NoPlaylistUniqueness(qid) == FALSE

\* queue_id ... UNIQUE of daily_playlists
PlaylistUniqueViolation(qid) == \E pl \in daily_playlists : pl.queue_id = qid

\* gen_random_uuid(): an id no row of the table has (rows are never deleted)
NewId(table) == Cardinality(table) + 1

\* The rows of a set as a sequence in ascending (position, id) order: .order('position')
RECURSIVE OrderByPosition(_)
OrderByPosition(S) ==
  IF S = {} THEN <<>>
  ELSE LET first == CHOOSE r \in S : \A o \in S :
                      \/ r.position < o.position
                      \/ r.position = o.position /\ r.id <= o.id
       IN <<first>> \o OrderByPosition(S \ {first})

\* Every order in which the store may return a set of rows (a select without .order)
RECURSIVE Orders(_)
Orders(S) ==
  IF S = {} THEN {<<>>}
  ELSE UNION {{<<r>> \o rest : rest \in Orders(S \ {r})} : r \in S}

----
\* Candidate selection of ensureDailyQueue

\* <<lo, lo+1, ..., hi>>, empty when hi < lo
Run(lo, hi) == [i \in 1..Max(hi - lo + 1, 0) |-> lo + i - 1]

\* What the Spotify helpers may answer: top tracks 1..a, recently played repeating
\* the first top track, top artists present or not, recommendations a..m
Sources(m) ==
  {[allTop |-> Run(1, a), recent |-> Run(1, Min(a, 1)), artists |-> art,
    recs |-> Run(Max(a, 1), m)] : a \in 0..m, art \in BOOLEAN}

\* candidates = [...allTop, ...recentlyPlayed]; if (topArtistIds.length) ... recs
Candidates(src) ==
  src.allTop \o src.recent \o (IF src.artists THEN src.recs ELSE <<>>)

\* A filter that keeps every candidate, repeated ids included.
DedupKeepsAll(cands) == cands

\* candidates.filter with the `seen` set: the first occurrence of each id, in order
RECURSIVE Dedup(_)
Dedup(cands) ==
  IF cands = <<>> THEN <<>>
  ELSE LET init == Dedup(SubSeq(cands, 1, Len(cands) - 1))
           last == cands[Len(cands)]
       IN IF last \in Range(init) THEN init ELSE Append(init, last)

\* Math.floor(Math.random() * (i + 1)): every index of a short array, the first and
\* the last index of a longer one (a sample of the draws)
RandomIndex(i) == IF i <= 2 THEN 0..i ELSE {0, i}

\* One draw per loop iteration i = 1 .. k (0-based index i)
RECURSIVE RandomDraws(_)
RandomDraws(k) ==
  IF k <= 0 THEN {<<>>}
  ELSE {Append(d, j) : d \in RandomDraws(k - 1), j \in RandomIndex(k)}

Swap(a, i, j) == [a EXCEPT ![i] = a[j], ![j] = a[i]]

\* shuffle(): Fisher-Yates from the last index down; draws[i] is j of iteration i
RECURSIVE FisherYates(_, _, _)
FisherYates(a, i, draws) ==
  IF i <= 0 THEN a
  ELSE FisherYates(Swap(a, i + 1, draws[i] + 1), i - 1, draws)

shuffle(arr, draws) == FisherYates(arr, Len(arr) - 1, draws)

\* A selection without the slice.
SelectAll(cands, draws) == shuffle(cands, draws)

\* shuffle(candidates).slice(0, 10)
Select(cands, draws) ==
  LET sh == shuffle(cands, draws) IN SubSeq(sh, 1, Min(QueueSize, Len(sh)))

----
\* Local variables of a call, and its return

FreshLoc ==
  [op |-> "none", item |-> None, score |-> None,
   candidates |-> <<>>, selected |-> <<>>, itemRows |-> {},
   queue |-> None, built |-> FALSE, qErr |-> FALSE,
   allDone |-> FALSE, rated |-> <<>>, mood |-> Null, playlist |-> None,
   plErr |-> FALSE, error |-> FALSE, skipErr |-> FALSE]

Idle(p) == pc[p] = "idle"

\* The call of client p goes on to its next await with locals l
Goto(p, l, label) ==
  /\ pc' = [pc EXCEPT ![p] = label]
  /\ loc' = [loc EXCEPT ![p] = l]
  /\ result' = [result EXCEPT ![p] = Pending]

\* What is left of a call's locals once it has returned: which call it was and the
\* branches it took
Returned(l) ==
  [FreshLoc EXCEPT !.op = l.op, !.built = l.built, !.qErr = l.qErr,
                   !.allDone = l.allDone, !.plErr = l.plErr, !.error = l.error,
                   !.skipErr = l.skipErr]

Return(p, l, value) ==
  /\ pc' = [pc EXCEPT ![p] = "idle"]
  /\ loc' = [loc EXCEPT ![p] = Returned(l)]
  /\ result' = [result EXCEPT ![p] = value]

----
\* ensureDailyQueue

\* A build that never looks for today's queue first.
NeverShortCircuit == FALSE

\* if (existing) return getTodayQueue()
EnsureShortCircuits == TodayQueueRow # {}

\* if (!token) return null
NoCredential == NullResult

EnsureDailyQueue(p) ==
  /\ Idle(p)
  /\ Goto(p, [FreshLoc EXCEPT !.op = "ensure"],
          IF EnsureShortCircuits THEN "gtq_queue" ELSE "ensure_fetch")
  /\ UNCHANGED <<today, token, db, completeWrites, ensured, insertFailed, screen, roundScore, ranker, clock, ensuredDay, scoresIn,
                moodOut>>

\* A builder that goes on with an empty selection.
NeverEmpty(selected) == FALSE

\* if (!selected.length) return null
EmptySelection(selected) == Len(selected) = 0

\* token, candidate fetches, dedup, shuffle, slice
EnsureFetch(p, srcs) ==
  /\ pc[p] = "ensure_fetch"
  /\ IF ~token
       THEN Return(p, loc[p], NoCredential)
       ELSE \E src \in srcs :
              LET cands == Candidates(src)
                  pool == Dedup(cands)
              IN \E draws \in RandomDraws(Len(pool) - 1) :
                   LET selected == Select(pool, draws)
                   IN IF EmptySelection(selected)
                        THEN Return(p, loc[p], NullResult)
                        ELSE Goto(p, [loc[p] EXCEPT !.candidates = cands,
                                                    !.selected = selected],
                                  "ensure_upsert")
  /\ UNCHANGED <<today, token, db, completeWrites, ensured, insertFailed, screen, roundScore, ranker, clock, ensuredDay, scoresIn,
                moodOut>>

\* upsert on (spotify_id, type): a row is added for each id that has none
RECURSIVE UpsertItems(_, _)
UpsertItems(table, ids) ==
  IF ids = <<>> THEN table
  ELSE LET t == Head(ids)
           next == IF \E r \in table : r.spotify_id = t
                     THEN table
                     ELSE table \cup {[id |-> NewId(table), spotify_id |-> t]}
       IN UpsertItems(next, Tail(ids))

EnsureUpsertItems(p, oks) ==
  /\ pc[p] = "ensure_upsert"
  /\ \E ok \in oks :
       IF ok
         THEN /\ items' = UpsertItems(items, loc[p].selected)
              /\ Goto(p, loc[p], "ensure_item_rows")
         ELSE /\ Return(p, loc[p], NullResult)
              /\ UNCHANGED items
  /\ UNCHANGED <<today, token, daily_queues, daily_queue_items, daily_playlists,
                daily_playlist_items, ratings, completeWrites, ensured, insertFailed, screen, roundScore, ranker, clock, ensuredDay,
                scoresIn, moodOut>>

\* The items rows of the selected tracks
ItemRowsOf(selected) == {r \in items : r.spotify_id \in Range(selected)}

\* .from('items').select('id, spotify_id').in('spotify_id', selected ids), the store
\* answering with one of rowsets; if (!itemRows?.length) return null
EnsureReadRows(p, rowsets) ==
  /\ pc[p] = "ensure_item_rows"
  /\ \E rows \in rowsets :
       IF rows = {}
         THEN Return(p, loc[p], NullResult)
         ELSE Goto(p, [loc[p] EXCEPT !.itemRows = rows], "ensure_insert_queue")
  /\ UNCHANGED <<today, token, db, completeWrites, ensured, insertFailed, screen, roundScore, ranker, clock, ensuredDay, scoresIn,
                moodOut>>

\* The read returns every row the upsert has just written
EnsureReadItemRows(p) == EnsureReadRows(p, {ItemRowsOf(loc[p].selected)})

\* The read misses rows: they are hidden from this user, or were deleted since
EnsureReadItemRowsLossy(p) == EnsureReadRows(p, SUBSET ItemRowsOf(loc[p].selected))

\* insert({ user_id, date: todayDate() }); if (qErr || !queue) return null
EnsureInsertQueue(p, oks) ==
  /\ pc[p] = "ensure_insert_queue"
  /\ \E ok \in oks :
       IF ok /\ ~QueueUniqueViolation(User, today)
         THEN LET row == [id |-> NewId(daily_queues), user_id |-> User, date |-> today,
                          mood |-> Null, completed_at |-> Null]
              IN /\ daily_queues' = daily_queues \cup {row}
                 /\ Goto(p, [loc[p] EXCEPT !.queue = row.id, !.built = TRUE],
                         "ensure_insert_items")
         ELSE /\ Return(p, [loc[p] EXCEPT !.qErr = TRUE], NullResult)
              /\ UNCHANGED daily_queues
  /\ UNCHANGED <<today, token, items, daily_queue_items, daily_playlists,
                daily_playlist_items, ratings, completeWrites, ensured, insertFailed, screen, roundScore, ranker, clock, ensuredDay,
                scoresIn, moodOut>>

\* idMap[t.id]: the id of the items row of a spotify id, Null when there is none
IdOf(rows, t) ==
  IF \E r \in rows : r.spotify_id = t
    THEN (CHOOSE r \in rows : r.spotify_id = t).id
    ELSE None

\* selected.map((t, i) => ({queue_id, item_id: idMap[t.id], position: i}))
\*         .filter((qi) => qi.item_id), with the ids the store gives the rows
NewQueueItems(qid, selected, rows, firstId) ==
  LET kept == {i \in 1..Len(selected) : IdOf(rows, selected[i]) # None}
      rank(i) == Cardinality({j \in kept : j < i})
  IN {[id |-> firstId + rank(i), queue_id |-> qid, item_id |-> IdOf(rows, selected[i]),
       position |-> i - 1, score |-> None, skipped |-> FALSE, rated_at |-> Null]
        : i \in kept}

\* await supabase.from('daily_queue_items').insert(queueItems): the error is not read
EnsureInsertQueueItems(p, oks) ==
  /\ pc[p] = "ensure_insert_items"
  /\ \E ok \in oks :
       daily_queue_items' =
         IF ok
           THEN daily_queue_items \cup
                  NewQueueItems(loc[p].queue, loc[p].selected, loc[p].itemRows,
                                NewId(daily_queue_items))
           ELSE daily_queue_items
  /\ Goto(p, loc[p], "gtq_queue")
  /\ UNCHANGED <<today, token, items, daily_queues, daily_playlists,
                daily_playlist_items, ratings, completeWrites, ensured, insertFailed, screen, roundScore, ranker, clock, ensuredDay,
                scoresIn, moodOut>>

----
\* getTodayQueue, called by the screen or as the tail of ensureDailyQueue

GetTodayQueue(p) ==
  /\ pc[p] \in {"idle", "gtq_queue"}
  /\ LET l == IF Idle(p) THEN [FreshLoc EXCEPT !.op = "getTodayQueue"] ELSE loc[p]
         queue == TodayQueueRow
     IN IF queue = {}
          THEN Return(p, l, NullResult)
          ELSE Goto(p, [l EXCEPT !.queue = Row(queue).id], "gtq_items")
  /\ UNCHANGED <<today, token, db, completeWrites, ensured, insertFailed, screen, roundScore, ranker, clock, ensuredDay, scoresIn,
                moodOut>>

\* return { queue, items }: the queue's id and its item ids in position order
QueueResult(qid) ==
  LET rows == OrderByPosition(QueueItemsOf(qid))
  IN [kind |-> "queue", queue |-> qid, items |-> [i \in 1..Len(rows) |-> rows[i].id]]

GetTodayQueueItems(p) ==
  /\ pc[p] = "gtq_items"
  /\ Return(p, loc[p], QueueResult(loc[p].queue))
  /\ ensured' = IF loc[p].op = "ensure" THEN QueueResult(loc[p].queue) ELSE ensured
  /\ ensuredDay' = IF loc[p].op = "ensure"
                     THEN ensuredDay \cup {<<LocalDay(now, tz), loc[p].queue>>}
                     ELSE ensuredDay
  /\ UNCHANGED <<today, token, db, completeWrites, insertFailed, screen, roundScore, ranker, clock,
                 scoresIn, moodOut>>

----
\* rateDailyItem, skipDailyItem

\* .update({ score, rated_at }).eq('id', queueItemId)
SetScore(table, id, score) ==
  {IF qi.id = id THEN [qi EXCEPT !.score = score, !.rated_at = Stamp] ELSE qi
     : qi \in table}

\* A skip that also clears the score of the item.
SetSkippedClearsScore(table, id) ==
  {IF qi.id = id THEN [qi EXCEPT !.skipped = TRUE, !.score = None, !.rated_at = Null]
                 ELSE qi : qi \in table}

\* A skip that flips the flag instead of setting it.
ToggleSkipped(table, id) ==
  {IF qi.id = id THEN [qi EXCEPT !.skipped = ~qi.skipped] ELSE qi : qi \in table}

\* .update({ skipped: true }).eq('id', queueItemId)
SetSkipped(table, id) ==
  {IF qi.id = id THEN [qi EXCEPT !.skipped = TRUE] ELSE qi : qi \in table}

\* A rate call that goes on to the mirror write although its update failed.
ContinueAfterUpdateError(p, l) == Goto(p, [l EXCEPT !.error = TRUE], "rate_mirror")

\* if (error) return null
AfterUpdateError(p, l) == Return(p, [l EXCEPT !.error = TRUE], NullResult)

\* rateDailyItem(qi.id, qi.item_id, score) for one of the queue items `targets`
RateCall(p, targets, scores, oks) ==
  /\ Idle(p)
  /\ \E qi \in targets, score \in scores, ok \in oks :
       LET l == [FreshLoc EXCEPT !.op = "rate", !.item = qi.item_id, !.score = score]
       IN IF ok
            THEN /\ daily_queue_items' = SetScore(daily_queue_items, qi.id, score)
                 /\ Goto(p, l, "rate_mirror")
            ELSE /\ UNCHANGED daily_queue_items
                 /\ AfterUpdateError(p, l)
  /\ UNCHANGED <<today, token, items, daily_queues, daily_playlists,
                daily_playlist_items, ratings, completeWrites, ensured, insertFailed, screen, roundScore, ranker, clock, ensuredDay,
                scoresIn, moodOut>>

\* rateDailyItem called on any queue item
RateDailyItem(p, scores, oks) == RateCall(p, daily_queue_items, scores, oks)

\* items.findIndex((i) => i.score === null && !i.skipped): the item the daily screen
\* shows, the first pending one of today's queue in position order
FirstPending ==
  LET pending == {qi \in daily_queue_items :
                    /\ \E q \in TodayQueueRow : qi.queue_id = q.id
                    /\ qi.score = None /\ ~qi.skipped}
  IN {qi \in pending : \A o \in pending : qi.position <= o.position}

\* handleSubmit of the daily screen: rateDailyItem on the item it shows
HandleSubmit(p, scores, oks) == RateCall(p, FirstPending, scores, oks)

\* ratings.upsert({ user_id, item_id, score }, { onConflict: 'user_id,item_id' })
RateMirror(p, oks) ==
  /\ pc[p] = "rate_mirror"
  /\ \E ok \in oks :
       ratings' = IF ok
                    THEN [i \in DOMAIN ratings \cup {loc[p].item} |->
                            IF i = loc[p].item THEN loc[p].score ELSE ratings[i]]
                    ELSE ratings
  /\ Goto(p, [loc[p] EXCEPT !.item = None, !.score = None], "check_queue")
  /\ UNCHANGED <<today, token, items, daily_queues, daily_queue_items, daily_playlists,
                daily_playlist_items, completeWrites, ensured, insertFailed, screen, roundScore, ranker, clock, ensuredDay, scoresIn,
                moodOut>>

\* A skip that reports the failed update to its caller.
SkipFailsHard(p, l) == Return(p, [l EXCEPT !.skipErr = TRUE], NullResult)

\* The update's error is not read: the call goes on to the completion check
\* (skipErr records what the dropped response said)
AfterSkipError(p, l) == Goto(p, [l EXCEPT !.skipErr = TRUE], "check_queue")

\* skipDailyItem(queueItemId) on one of targets
SkipCall(p, targets, oks) ==
  /\ Idle(p)
  /\ \E qi \in targets, ok \in oks :
       LET l == [FreshLoc EXCEPT !.op = "skip"]
       IN IF ok
            THEN /\ daily_queue_items' = SetSkipped(daily_queue_items, qi.id)
                 /\ Goto(p, l, "check_queue")
            ELSE /\ UNCHANGED daily_queue_items
                 /\ AfterSkipError(p, l)
  /\ UNCHANGED <<today, token, items, daily_queues, daily_playlists,
                daily_playlist_items, ratings, completeWrites, ensured, insertFailed, screen, roundScore, ranker, clock, ensuredDay,
                scoresIn, moodOut>>

\* skipDailyItem called on any queue item
SkipDailyItem(p, oks) == SkipCall(p, daily_queue_items, oks)

----
\* checkAndGeneratePlaylist

\* A check that is satisfied once any item is resolved.
AnyDone(its) == \E i \in 1..Len(its) : its[i].score # None \/ its[i].skipped

\* items.every((i) => i.score !== null || i.skipped)
AllDone(its) == \A i \in 1..Len(its) : its[i].score # None \/ its[i].skipped

\* A filter that keeps every scored item, skipped or not.
ScoredItems(its) == SelectSeq(its, LAMBDA i : i.score # None)

\* items.filter((i) => i.score !== null && !i.skipped)
RatedItems(its) == SelectSeq(its, LAMBDA i : i.score # None /\ ~i.skipped)

\* ratedItems.map((i) => i.score)
ScoresOf(its) == [i \in 1..Len(its) |-> its[i].score]

\* x placed behind the elements that do not sort after it (the sort is stable)
InsertByScore(sorted, x) ==
  LET k == Cardinality({i \in 1..Len(sorted) : sorted[i].score >= x.score})
  IN SubSeq(sorted, 1, k) \o <<x>> \o SubSeq(sorted, k + 1, Len(sorted))

\* [...ratedItems].sort((a, b) => (b.score ?? 0) - (a.score ?? 0))
RECURSIVE SortByScore(_)
SortByScore(its) ==
  IF its = <<>> THEN <<>>
  ELSE InsertByScore(SortByScore(SubSeq(its, 1, Len(its) - 1)), its[Len(its)])

\* {} and { playlist }: what checkAndGeneratePlaylist returns
NoPlaylist == [kind |-> "check", playlist |-> None]
WithPlaylist(plid) == [kind |-> "check", playlist |-> plid]

\* A check that never takes the completed_at branch.
NeverCompleted(q) == FALSE

\* if (queue.completed_at)
AlreadyCompleted(q) == q.completed_at # Null

\* read today's queue; if (!queue) return {}; the completed_at branch
CheckQueue(p) ==
  /\ pc[p] = "check_queue"
  /\ LET queue == TodayQueueRow
     IN IF queue = {}
          THEN Return(p, loc[p], NoPlaylist)
          ELSE Goto(p, [loc[p] EXCEPT !.queue = Row(queue).id],
                    IF AlreadyCompleted(Row(queue)) THEN "check_existing"
                                                    ELSE "check_items")
  /\ UNCHANGED <<today, token, db, completeWrites, ensured, insertFailed, screen, roundScore, ranker, clock, ensuredDay, scoresIn,
                moodOut>>

\* return { playlist: (pl as DailyPlaylist) ?? undefined }
CheckExistingPlaylist(p) ==
  /\ pc[p] = "check_existing"
  /\ LET pl == PlaylistRowOf(loc[p].queue)
     IN Return(p, loc[p], IF pl = {} THEN NoPlaylist ELSE WithPlaylist(Row(pl).id))
  /\ UNCHANGED <<today, token, db, completeWrites, ensured, insertFailed, screen, roundScore, ranker, clock, ensuredDay, scoresIn,
                moodOut>>

\* read the queue's items (in whatever order the store returns them), allDone,
\* ratedItems, mood
CheckItems(p) ==
  /\ pc[p] = "check_items"
  /\ \E its \in Orders(QueueItemsOf(loc[p].queue)) :
       IF ~AllDone(its)
         THEN Return(p, loc[p], NoPlaylist)
         ELSE LET ratedItems == RatedItems(its)
              IN Goto(p, [loc[p] EXCEPT
                            !.allDone = TRUE,
                            !.rated = [i \in 1..Len(ratedItems) |->
                                         [item_id |-> ratedItems[i].item_id,
                                          score |-> ratedItems[i].score]],
                            !.mood = computeMood(ScoresOf(ratedItems))],
                      "check_complete")
  /\ UNCHANGED <<today, token, db, completeWrites, ensured, insertFailed, screen, roundScore, ranker, clock, ensuredDay, scoresIn,
                moodOut>>

\* An update that stamps the completion and leaves the mood for a later write.
MarkCompletedOnly(q, mood) == [q EXCEPT !.completed_at = Stamp]

\* { completed_at: new Date().toISOString(), mood }
MarkCompleted(q, mood) == [q EXCEPT !.completed_at = Stamp, !.mood = mood]

\* .update({ completed_at, mood }).eq('id', queue.id): the error is not read
CheckMarkComplete(p, oks) ==
  /\ pc[p] = "check_complete"
  /\ \E ok \in oks :
       IF ok
         THEN /\ daily_queues' =
                   {IF q.id = loc[p].queue
                      THEN MarkCompleted(q, loc[p].mood)
                      ELSE q : q \in daily_queues}
              /\ completeWrites' = completeWrites + 1
         ELSE UNCHANGED <<daily_queues, completeWrites>>
  /\ Goto(p, loc[p], "check_insert_playlist")
  /\ UNCHANGED <<today, token, items, daily_queue_items, daily_playlists,
                daily_playlist_items, ratings, ensured, insertFailed, screen, roundScore, ranker, clock, ensuredDay, scoresIn, moodOut>>

\* A caller that is told of a failed playlist insert.
PlaylistInsertFailedIsNull == NullResult

\* if (plErr || !playlist) return {}
PlaylistInsertFailed == NoPlaylist

\* insert({ queue_id, user_id, mood }).select().single(); no items to insert when
\* sorted is empty
CheckInsertPlaylist(p, oks) ==
  /\ pc[p] = "check_insert_playlist"
  /\ \E ok \in oks :
       IF ok /\ ~PlaylistUniqueViolation(loc[p].queue)
         THEN LET row == [id |-> NewId(daily_playlists), queue_id |-> loc[p].queue,
                          user_id |-> User, mood |-> loc[p].mood]
              IN /\ daily_playlists' = daily_playlists \cup {row}
                 /\ UNCHANGED insertFailed
                 /\ IF Len(loc[p].rated) = 0
                      THEN Return(p, loc[p], WithPlaylist(row.id))
                      ELSE Goto(p, [loc[p] EXCEPT !.playlist = row.id],
                                "check_insert_items")
         ELSE /\ Return(p, [loc[p] EXCEPT !.plErr = TRUE], PlaylistInsertFailed)
              /\ insertFailed' = insertFailed \cup {loc[p].queue}
              /\ UNCHANGED daily_playlists
  /\ UNCHANGED <<today, token, items, daily_queues, daily_queue_items,
                daily_playlist_items, ratings, completeWrites, ensured, screen, roundScore, ranker, clock, ensuredDay,
                scoresIn, moodOut>>

\* A materializer that keeps the order in which the items were read.
NewPlaylistItemsUnsorted(plid, rated) ==
  {[playlist_id |-> plid, item_id |-> rated[i].item_id, score |-> rated[i].score,
    position |-> i - 1] : i \in 1..Len(rated)}

\* sorted.map((i, idx) => ({ playlist_id, item_id, score, position: idx }))
NewPlaylistItems(plid, rated) ==
  LET sorted == SortByScore(rated)
  IN {[playlist_id |-> plid, item_id |-> sorted[i].item_id, score |-> sorted[i].score,
       position |-> i - 1] : i \in 1..Len(sorted)}

\* await supabase.from('daily_playlist_items').insert(...): the error is not read
CheckInsertPlaylistItems(p, oks) ==
  /\ pc[p] = "check_insert_items"
  /\ \E ok \in oks :
       daily_playlist_items' =
         IF ok THEN daily_playlist_items \cup NewPlaylistItems(loc[p].playlist, loc[p].rated)
               ELSE daily_playlist_items
  /\ Return(p, loc[p], WithPlaylist(loc[p].playlist))
  /\ UNCHANGED <<today, token, items, daily_queues, daily_queue_items, daily_playlists,
                ratings, completeWrites, ensured, insertFailed, screen, roundScore, ranker, clock, ensuredDay, scoresIn, moodOut>>

----
\* getDailyStatus

GetDailyStatus(p) ==
  /\ Idle(p)
  /\ LET queue == TodayQueueRow
     IN IF queue = {}
          THEN Return(p, [FreshLoc EXCEPT !.op = "status"],
                      [kind |-> "status", state |-> "none"])
          ELSE Goto(p, [FreshLoc EXCEPT !.op = "status", !.queue = Row(queue).id,
                                        !.mood = Row(queue).mood],
                    IF Row(queue).completed_at # Null THEN "status_playlist"
                                                      ELSE "status_items")
  /\ UNCHANGED <<today, token, db, completeWrites, ensured, insertFailed, screen, roundScore, ranker, clock, ensuredDay, scoresIn,
                moodOut>>

\* { state: 'completed', queue, playlist: playlist ?? null }
StatusPlaylist(p) ==
  /\ pc[p] = "status_playlist"
  /\ LET pl == PlaylistRowOf(loc[p].queue)
     IN Return(p, loc[p],
               [kind |-> "status", state |-> "completed", queue |-> loc[p].queue,
                   mood |-> loc[p].mood,
                   playlist |-> IF pl = {} THEN None ELSE Row(pl).id])
  /\ UNCHANGED <<today, token, db, completeWrites, ensured, insertFailed, screen, roundScore, ranker, clock, ensuredDay, scoresIn,
                moodOut>>

\* A count that leaves the skipped items out.
ScoredCount(its) == Cardinality({i \in its : i.score # None})

\* items?.filter((i) => i.score !== null || i.skipped).length
RatedCount(its) == Cardinality({i \in its : i.score # None \/ i.skipped})

\* { state: 'in_progress', queue, rated, total }
StatusItems(p) ==
  /\ pc[p] = "status_items"
  /\ LET its == QueueItemsOf(loc[p].queue)
     IN Return(p, loc[p],
               [kind |-> "status", state |-> "in_progress", queue |-> loc[p].queue,
                   rated |-> RatedCount(its),
                   total |-> Cardinality(its)])
  /\ UNCHANGED <<today, token, db, completeWrites, ensured, insertFailed, screen, roundScore, ranker, clock, ensuredDay, scoresIn,
                moodOut>>

----
\* getTodayPlaylist

\* if (!queue?.completed_at) return null
GetTodayPlaylist(p) ==
  /\ Idle(p)
  /\ LET queue == TodayQueueRow
         l == [FreshLoc EXCEPT !.op = "playlist"]
     IN IF queue = {} \/ ~AlreadyCompleted(Row(queue))
          THEN Return(p, l, NullResult)
          ELSE Goto(p, [l EXCEPT !.queue = Row(queue).id], "gtp_playlist")
  /\ UNCHANGED <<today, token, db, completeWrites, ensured, insertFailed, screen, roundScore, ranker, clock, ensuredDay, scoresIn,
                moodOut>>

\* if (!playlist) return null
GetTodayPlaylistRow(p) ==
  /\ pc[p] = "gtp_playlist"
  /\ LET pl == PlaylistRowOf(loc[p].queue)
     IN IF pl = {}
          THEN Return(p, loc[p], NullResult)
          ELSE Goto(p, [loc[p] EXCEPT !.playlist = Row(pl).id], "gtp_items")
  /\ UNCHANGED <<today, token, db, completeWrites, ensured, insertFailed, screen, roundScore, ranker, clock, ensuredDay, scoresIn,
                moodOut>>

\* return { playlist, items: items ?? [] }: the playlist's id and the item ids of its
\* rows in position order
PlaylistResult(plid) ==
  LET rows == OrderByPosition({[id |-> pi.item_id, position |-> pi.position]
                                 : pi \in {r \in daily_playlist_items :
                                             r.playlist_id = plid}})
  IN [kind |-> "playlist", playlist |-> plid,
      items |-> [i \in 1..Len(rows) |-> rows[i].id]]

GetTodayPlaylistItems(p) ==
  /\ pc[p] = "gtp_items"
  /\ Return(p, loc[p], PlaylistResult(loc[p].playlist))
  /\ UNCHANGED <<today, token, db, completeWrites, ensured, insertFailed, screen, roundScore, ranker, clock, ensuredDay, scoresIn,
                moodOut>>

----
\* A direct call of computeMood

Classify ==
  /\ moodOut = Null
  /\ moodOut' = computeMood(scoresIn)
  /\ UNCHANGED <<today, token, db, pc, loc, result, completeWrites, ensured, insertFailed, screen, roundScore, ranker, clock, ensuredDay,
                scoresIn>>

----
\* The profile screen's ranking of artists and genres (app/(tabs)/profile.tsx)

\* A number with a fraction, as <<numerator, denominator>> with a positive
\* denominator: the code computes in doubles, whose rounding is far below the
\* distance of two different values here and can only reorder exact ties
Less(x, y) == x[1] * y[2] < y[1] * x[2]

Same(x, y) == x[1] * y[2] = y[1] * x[2]

Whole(n) == <<n, 1>>

bayesianScoreNoPrior(count, total, globalAvg) == <<total[1], count * total[2]>>

bayesianScore(count, total, globalAvg) ==
  <<total[1] * globalAvg[2] + BAYES_M * globalAvg[1] * total[2],
    (count + BAYES_M) * total[2] * globalAvg[2]>>

DefaultAvg == <<13, 2>>

GlobalAvg(rs) ==
  IF Len(rs) > 0 THEN <<SumSeq([i \in 1..Len(rs) |-> rs[i].score]), Len(rs)>>
  ELSE DefaultAvg

\* map[a].count++ and map[a].total += r.score; a new key goes last
Tally(map, a, score) ==
  IF \E i \in 1..Len(map) : map[i].name = a
  THEN [i \in 1..Len(map) |->
          IF map[i].name = a
          THEN [map[i] EXCEPT !.count = @ + 1, !.total = @ + score]
          ELSE map[i]]
  ELSE Append(map, [name |-> a, count |-> 1, total |-> score])

RECURSIVE TallyNames(_, _, _)
TallyNames(map, names, score) ==
  IF names = <<>> THEN map
  ELSE TallyNames(Tally(map, Head(names), score), Tail(names), score)

RECURSIVE TallyRatings(_, _, _)
TallyRatings(map, rs, field) ==
  IF rs = <<>> THEN map
  ELSE TallyRatings(TallyNames(map, Head(rs)[field], Head(rs).score), Tail(rs), field)

\* Object.entries(map).map(...): the keys in the order they were added (the names
\* are not array indices)
Cells(map) ==
  [i \in 1..Len(map) |->
     [name |-> map[i].name, count |-> map[i].count,
      avgScore |-> <<map[i].total, map[i].count>>]]

\* bayesianScore(c.count, c.count * c.avgScore, globalAvg)
Adjusted(c, g) ==
  bayesianScore(c.count, <<c.count * c.avgScore[1], c.avgScore[2]>>, g)

\* Array.prototype.sort is stable: a cell goes behind every cell that is not below it
RECURSIVE InsertCell(_, _, _)
InsertCell(sorted, c, g) ==
  IF sorted = <<>> THEN <<c>>
  ELSE IF Less(Adjusted(Head(sorted), g), Adjusted(c, g))
       THEN <<c>> \o sorted
       ELSE <<Head(sorted)>> \o InsertCell(Tail(sorted), c, g)

RECURSIVE SortCells(_, _, _)
SortCells(cells, sorted, g) ==
  IF cells = <<>> THEN sorted
  ELSE SortCells(Tail(cells), InsertCell(sorted, Head(cells), g), g)

SliceAll(s, n) == s

Slice(s, n) == SubSeq(s, 1, Min(n, Len(s)))

RankBy(rs, field, limit) ==
  Slice(SortCells(Cells(TallyRatings(<<>>, rs, field)), <<>>, GlobalAvg(rs)), limit)

computeTopArtists(rs) == RankBy(rs, "artists", TopArtists)

computeTopGenres(rs) == RankBy(rs, "genres", TopGenres)

\* The screen renders the two rankings of the ratings it loaded
RenderProfile ==
  /\ rankOut = Pending
  /\ rankOut' = [kind |-> "ranked", artists |-> computeTopArtists(history),
                 genres |-> computeTopGenres(history)]
  /\ UNCHANGED <<today, token, db, pc, loc, result, completeWrites, ensured, insertFailed, screen, roundScore,
                 scoresIn, moodOut, history, bayesIn, bayesOut, clock, ensuredDay>>

\* Direct calls of bayesianScore: an artist of raw average a, seen n1 and n2 times
Shrink ==
  /\ bayesOut = Pending
  /\ bayesOut' =
       [kind |-> "scores",
        low |-> bayesianScore(bayesIn.n1, Whole(bayesIn.n1 * bayesIn.a), bayesIn.g),
        high |-> bayesianScore(bayesIn.n2, Whole(bayesIn.n2 * bayesIn.a), bayesIn.g)]
  /\ UNCHANGED <<today, token, db, pc, loc, result, completeWrites, ensured, insertFailed, screen, roundScore,
                 scoresIn, moodOut, history, rankOut, bayesIn, clock, ensuredDay>>

----
\* The daily screen (app/daily/index.tsx), whose calls are those of Caller

\* useState defaults: queueError null, items [], currentIndex 0, submitting false;
\* stage is the await the screen's handler is at, route the page shown
ScreenInit ==
  [stage |-> "none", queueError |-> Null, items |-> <<>>, currentIndex |-> 0,
   submitting |-> FALSE, route |-> "daily"]

\* The handler goes on to its next await: no call of the screen is outstanding
ScreenStep(next) ==
  /\ screen' = next
  /\ loc' = [loc EXCEPT ![Caller] = FreshLoc]
  /\ UNCHANGED <<today, token, db, pc, result, completeWrites, ensured, insertFailed,
                 roundScore, ranker, clock, ensuredDay, scoresIn, moodOut>>

\* The call the handler awaits has returned
Resumes(stage, op) ==
  /\ screen.stage = stage
  /\ Idle(Caller)
  /\ loc[Caller].op = op

\* The handler is about to make its call
Calls(stage) ==
  /\ screen.stage = stage
  /\ Idle(Caller)
  /\ loc[Caller].op = "none"

\* rows.findIndex((item, i) => i > after && item.score === null && !item.skipped),
\* indices counted from 0
FindPending(rows, after) ==
  LET found == {i \in 0..(Len(rows) - 1) :
                  i > after /\ rows[i + 1].score = None /\ ~rows[i + 1].skipped}
  IN IF found = {} THEN 0 - 1 ELSE CHOOSE i \in found : \A j \in found : i <= j

\* loadQueue: setLoading, setQueueError(null), setQueue(null), setItems([])
LoadQueue ==
  /\ screen.stage \in {"none", "failed"}
  /\ Idle(Caller)
  /\ ScreenStep([ScreenInit EXCEPT !.stage = "load_get"])

\* let result = await getTodayQueue()
LoadGetTodayQueue ==
  /\ Calls("load_get")
  /\ GetTodayQueue(Caller)

\* setQueue(result.queue); a completed queue goes to the playlist, otherwise
\* setItems(result.items) and setCurrentIndex(first pending, or items.length); the
\* rows are read here as the call has just returned them
Loaded(r) ==
  LET rows == OrderByPosition(QueueItemsOf(r.queue))
      queue == CHOOSE q \in daily_queues : q.id = r.queue
      firstPending == FindPending(rows, 0 - 1)
  IN IF queue.completed_at # Null
       THEN [screen EXCEPT !.stage = "done", !.route = "playlist"]
       ELSE [screen EXCEPT !.stage = "ready", !.items = rows,
                           !.currentIndex = IF firstPending >= 0 THEN firstPending
                                                                 ELSE Len(rows)]

\* if (!result) result = await ensureDailyQueue()
LoadAfterGet ==
  /\ Resumes("load_get", "getTodayQueue")
  /\ ScreenStep(IF result[Caller] = NullResult
                  THEN [screen EXCEPT !.stage = "load_ensure"]
                  ELSE Loaded(result[Caller]))

LoadEnsureDailyQueue ==
  /\ Calls("load_ensure")
  /\ EnsureDailyQueue(Caller)

\* return getTodayQueue() at the end of the build, or for the existing queue
EnsureGetTodayQueue ==
  /\ pc[Caller] = "gtq_queue"
  /\ GetTodayQueue(Caller)

\* if (!result) { const token = await getStoredSpotifyToken(); ... }
LoadAfterEnsure ==
  /\ Resumes("load_ensure", "ensure")
  /\ ScreenStep(IF result[Caller] = NullResult
                  THEN [screen EXCEPT !.stage = "load_token"]
                  ELSE Loaded(result[Caller]))

\* A screen with one message for every failed load.
AlwaysNoToken(tok) == "no_token"

\* token ? 'build_failed' : 'no_token'
QueueErrorFor(tok) == IF tok THEN "build_failed" ELSE "no_token"

\* setQueueError(...); setLoading(false); return
LoadReadToken ==
  /\ screen.stage = "load_token"
  /\ ScreenStep([screen EXCEPT !.queueError = QueueErrorFor(token), !.stage = "failed"])

\* const currentItem = items[currentIndex] ?? null
HasCurrentItem == screen.currentIndex < Len(screen.items)

\* The row of currentItem.id
CurrentRows ==
  IF HasCurrentItem
    THEN {qi \in daily_queue_items : qi.id = screen.items[screen.currentIndex + 1].id}
    ELSE {}

\* handleSubmit / handleSkip: if (!currentItem || submitting) return;
\* setSubmitting(true)
Tap(stage) ==
  /\ screen.stage = "ready"
  /\ HasCurrentItem
  /\ ~screen.submitting
  /\ Idle(Caller)
  /\ ScreenStep([screen EXCEPT !.submitting = TRUE, !.stage = stage])

HandleSubmitTap == Tap("submit")

HandleSkipTap == Tap("skip")

\* await rateDailyItem(currentItem.id, currentItem.item_id, score)
SubmitRate(scores, oks) ==
  /\ Calls("submit")
  /\ RateCall(Caller, CurrentRows, scores, oks)

\* await skipDailyItem(currentItem.id)
SkipSkip(oks) ==
  /\ Calls("skip")
  /\ SkipCall(Caller, CurrentRows, oks)

\* advanceOrFinish then setSubmitting(false): the next pending item of the loaded
\* list, or the playlist page
advanceOrFinish(s) ==
  LET nextIndex == FindPending(s.items, s.currentIndex)
  IN IF nextIndex >= 0
       THEN [s EXCEPT !.currentIndex = nextIndex, !.submitting = FALSE, !.stage = "ready"]
       ELSE [s EXCEPT !.route = "playlist", !.submitting = FALSE, !.stage = "done"]

\* A screen that moves on although the rating was not saved.
AdvanceAnyway(s) == advanceOrFinish(s)

\* if (result === null) { Alert.alert(...); setSubmitting(false); return; }
OnRateFailure(s) == [s EXCEPT !.submitting = FALSE, !.stage = "ready"]

AfterSubmit ==
  /\ Resumes("submit", "rate")
  /\ screen' = IF result[Caller] = NullResult THEN OnRateFailure(screen)
                                              ELSE advanceOrFinish(screen)
  /\ UNCHANGED <<today, token, db, pc, loc, result, completeWrites, ensured,
                 insertFailed, roundScore, ranker, clock, ensuredDay, scoresIn, moodOut>>

\* advanceOrFinish(result?.playlist != null); setSubmitting(false)
AfterSkip ==
  /\ Resumes("skip", "skip")
  /\ screen' = advanceOrFinish(screen)
  /\ UNCHANGED <<today, token, db, pc, loc, result, completeWrites, ensured,
                 insertFailed, roundScore, ranker, clock, ensuredDay, scoresIn, moodOut>>

----
\* The credential

\* getStoredSpotifyToken starts to return null: the token was removed, or it
\* expired and the refresh fails
LoseToken ==
  /\ token
  /\ token' = FALSE
  /\ UNCHANGED <<today, db, pc, loc, result, completeWrites, ensured, insertFailed,
                 screen, roundScore, ranker, clock, ensuredDay, scoresIn, moodOut>>

----
\* The clock

\* Time passes between two calls (a call is short against the unit of the clock);
\* the next todayDate() reads the new time
Tick ==
  /\ \A p \in Procs : Idle(p)
  /\ now < UnitsPerDay + MaxTicks
  /\ now' = now + 1
  /\ today' = todayDate(now')
  /\ UNCHANGED <<token, db, pc, loc, result, completeWrites, ensured, insertFailed,
                 screen, roundScore, ranker, tz, ensuredDay, scoresIn, moodOut>>

----
\* Specifications

\* No profile is open and no score is being computed
InitProfile ==
  /\ history = <<>>
  /\ rankOut = Pending
  /\ bayesIn = [n1 |-> 1, n2 |-> 1, a |-> MinScore, g |-> DefaultAvg]
  /\ bayesOut = Pending

InitStore ==
  /\ now = UnitsPerDay
  /\ today = todayDate(now)
  /\ ensuredDay = {}
  /\ insertFailed = {}
  /\ screen = ScreenInit
  /\ items = {}
  /\ daily_queues = {}
  /\ daily_queue_items = {}
  /\ daily_playlists = {}
  /\ daily_playlist_items = {}
  /\ ratings = <<>>
  /\ pc = [p \in Procs |-> "idle"]
  /\ loc = [p \in Procs |-> FreshLoc]
  /\ result = [p \in Procs |-> NullResult]
  /\ completeWrites = 0
  /\ ensured = NullResult

Init ==
  /\ InitStore
  /\ InitProfile
  /\ tz = 0
  /\ token \in BOOLEAN
  /\ roundScore = MinScore
  /\ scoresIn = <<>>
  /\ moodOut = Null

EnsureSteps(p, srcs, oks) ==
  \/ EnsureDailyQueue(p)
  \/ EnsureFetch(p, srcs)
  \/ EnsureUpsertItems(p, oks)
  \/ EnsureReadItemRows(p)
  \/ EnsureInsertQueue(p, oks)
  \/ EnsureInsertQueueItems(p, oks)
  \/ GetTodayQueue(p)
  \/ GetTodayQueueItems(p)

CheckSteps(p, oks) ==
  \/ CheckQueue(p)
  \/ CheckExistingPlaylist(p)
  \/ CheckItems(p)
  \/ CheckMarkComplete(p, oks)
  \/ CheckInsertPlaylist(p, oks)
  \/ CheckInsertPlaylistItems(p, oks)

RateSteps(p, scores, oks) ==
  \/ RateDailyItem(p, scores, oks)
  \/ RateMirror(p, oks)
  \/ CheckSteps(p, oks)

StatusSteps(p) ==
  \/ GetDailyStatus(p)
  \/ StatusPlaylist(p)
  \/ StatusItems(p)

PlaylistSteps(p) ==
  \/ GetTodayPlaylist(p)
  \/ GetTodayPlaylistRow(p)
  \/ GetTodayPlaylistItems(p)

\* Rate and skip calls of the clients interleave at every await, on a queue one
\* client builds; every store write succeeds
Next ==
  \/ EnsureSteps(Caller, Sources(MaxRacePool), {TRUE})
  \/ \E p \in Procs :
       \/ RateSteps(p, RaceScores, {TRUE})
       \/ SkipDailyItem(p, {TRUE})

Spec == Init /\ [][Next]_vars

\* ensureDailyQueue and getTodayQueue calls of the clients interleave at every await
NextEnsure == \E p \in Procs : EnsureSteps(p, Sources(MaxRacePool), {TRUE})

SpecEnsure == Init /\ [][NextEnsure]_vars

NextSeq ==
  \/ EnsureSteps(Caller, Sources(MaxPool), {TRUE})
  \/ RateSteps(Caller, RaceScores, {TRUE})
  \/ SkipDailyItem(Caller, {TRUE})
  \/ StatusSteps(Caller)
  \/ PlaylistSteps(Caller)

SpecSeq == Init /\ [][NextSeq]_vars

\* Calls made one after the other against a store whose every write may fail
NextFault ==
  \/ EnsureSteps(Caller, Sources(MaxRacePool), BOOLEAN)
  \/ RateSteps(Caller, RaceScores, BOOLEAN)
  \/ SkipDailyItem(Caller, BOOLEAN)
  \/ PlaylistSteps(Caller)

SpecFault == Init /\ [][NextFault]_vars

\* The round trip: build, rate every item with roundScore, read the status
InitRound ==
  /\ InitStore
  /\ InitProfile
  /\ tz = 0
  /\ token = TRUE
  /\ roundScore \in AllScores
  /\ scoresIn = <<>>
  /\ moodOut = Null

NextRound ==
  \/ EnsureSteps(Caller, Sources(MaxPool), {TRUE})
  \/ RateSteps(Caller, {roundScore}, {TRUE})
  \/ StatusSteps(Caller)

SpecRound == InitRound /\ [][NextRound]_vars

\* Builds from pools of up to MaxBuildPool distinct candidates
InitBuild ==
  /\ InitStore
  /\ InitProfile
  /\ tz = 0
  /\ token = TRUE
  /\ roundScore = MinScore
  /\ scoresIn = <<>>
  /\ moodOut = Null

NextBuild == EnsureSteps(Caller, Sources(MaxBuildPool), {TRUE})

SpecBuild == InitBuild /\ [][NextBuild]_vars

\* computeMood applied to every list of up to MaxLen scores
InitMood ==
  /\ InitStore
  /\ InitProfile
  /\ tz = 0
  /\ token = TRUE
  /\ roundScore = MinScore
  /\ scoresIn \in UNION {[1..n -> AllScores] : n \in 0..MaxLen}
  /\ moodOut = Null

SpecMood == InitMood /\ [][Classify]_vars

\* The playlist ordering example: a queue of four tracks rated with the scores of
\* SortExample
SortExample == <<7, 9, 7, 10>>

SortSources ==
  {[allTop |-> Run(1, Len(SortExample)), recent |-> <<>>, artists |-> FALSE,
    recs |-> <<>>]}

\* The daily screen rates the items in queue order, each once; no check starts on a
\* completed queue, so the completed_at branch has no step here
NextSort ==
  \/ EnsureSteps(Caller, SortSources, {TRUE})
  \/ HandleSubmit(Caller, Range(SortExample), {TRUE})
  \/ RateMirror(Caller, {TRUE})
  \/ CheckQueue(Caller)
  \/ CheckItems(Caller)
  \/ CheckMarkComplete(Caller, {TRUE})
  \/ CheckInsertPlaylist(Caller, {TRUE})
  \/ CheckInsertPlaylistItems(Caller, {TRUE})

SpecSort == InitBuild /\ [][NextSort]_vars

\* Builds in which the read of the item ids may miss rows
NextDrop ==
  \/ EnsureDailyQueue(Caller)
  \/ EnsureFetch(Caller, Sources(MaxPool))
  \/ EnsureUpsertItems(Caller, {TRUE})
  \/ EnsureReadItemRowsLossy(Caller)
  \/ EnsureInsertQueue(Caller, {TRUE})
  \/ EnsureInsertQueueItems(Caller, {TRUE})
  \/ GetTodayQueue(Caller)
  \/ GetTodayQueueItems(Caller)

SpecDrop == Init /\ [][NextDrop]_vars

\* Calls of a user who loses the credential at some moment
NextCred ==
  \/ EnsureSteps(Caller, Sources(MaxPool), {TRUE})
  \/ LoseToken

SpecCred == Init /\ [][NextCred]_vars

\* Two clients resolve the two items of a queue, each its own item, once, their
\* calls interleaving at every await; every store write succeeds
PairSources ==
  {[allTop |-> Run(1, Cardinality(Procs)), recent |-> <<>>, artists |-> FALSE,
    recs |-> <<>>]}

\* The pending item client p resolves: the one at position p - 1
PendingOf(p) ==
  {qi \in daily_queue_items : qi.position = p - 1 /\ qi.score = None /\ ~qi.skipped}

NextPair ==
  \/ EnsureSteps(Caller, PairSources, {TRUE})
  \/ \E p \in Procs :
       \/ RateCall(p, PendingOf(p), {MaxScore}, {TRUE})
       \/ SkipCall(p, PendingOf(p), {TRUE})
       \/ RateMirror(p, {TRUE})
       \/ CheckSteps(p, {TRUE})

SpecPair == InitBuild /\ [][NextPair]_vars

\* Calls made one after the other while the calendar moves on between them: the
\* daily screen stays open on the queue it loaded, so a rate or skip call may
\* come for a pending item of a queue of an earlier day
AnyPending == {qi \in daily_queue_items : qi.score = None /\ ~qi.skipped}

NextMidnight ==
  \/ EnsureSteps(Caller, Sources(MaxRacePool), {TRUE})
  \/ RateCall(Caller, AnyPending, {MaxScore}, {TRUE})
  \/ SkipCall(Caller, AnyPending, {TRUE})
  \/ RateMirror(Caller, {TRUE})
  \/ CheckSteps(Caller, {TRUE})
  \/ Tick

SpecMidnight == Init /\ [][NextMidnight]_vars

\* The daily screen: a load, then the items rated or skipped one by one; the
\* credential may be lost, and the writes of the build and of the ratings may fail
NextScreen ==
  \/ LoadQueue
  \/ LoadGetTodayQueue
  \/ LoadAfterGet
  \/ LoadEnsureDailyQueue
  \/ LoadAfterEnsure
  \/ LoadReadToken
  \/ EnsureFetch(Caller, Sources(MaxPool))
  \/ EnsureUpsertItems(Caller, BOOLEAN)
  \/ EnsureReadItemRows(Caller)
  \/ EnsureInsertQueue(Caller, BOOLEAN)
  \/ EnsureInsertQueueItems(Caller, {TRUE})
  \/ EnsureGetTodayQueue
  \/ GetTodayQueueItems(Caller)
  \/ HandleSubmitTap
  \/ SubmitRate(RaceScores, BOOLEAN)
  \/ RateMirror(Caller, {TRUE})
  \/ AfterSubmit
  \/ HandleSkipTap
  \/ SkipSkip({TRUE})
  \/ AfterSkip
  \/ CheckQueue(Caller)
  \/ CheckItems(Caller)
  \/ CheckMarkComplete(Caller, {TRUE})
  \/ CheckInsertPlaylist(Caller, {TRUE})
  \/ CheckInsertPlaylistItems(Caller, {TRUE})
  \/ LoseToken

SpecScreen == Init /\ [][NextScreen]_vars

\* Builds over several days, by a user whose local time is behind, at or ahead of
\* UTC
InitClock ==
  /\ InitStore
  /\ InitProfile
  /\ tz \in {-1, 0, 1}
  /\ token = TRUE
  /\ roundScore = MinScore
  /\ scoresIn = <<>>
  /\ moodOut = Null

NextClock ==
  \/ EnsureSteps(Caller, Sources(MaxRacePool), {TRUE})
  \/ Tick

SpecClock == InitClock /\ [][NextClock]_vars

\* bayesianScore for every pair of counts up to MaxCount, every whole raw average
\* and every global mean that is a multiple of one half
InitBayes ==
  /\ InitStore
  /\ tz = 0
  /\ token = TRUE
  /\ roundScore = MinScore
  /\ scoresIn = <<>>
  /\ moodOut = Null
  /\ history = <<>>
  /\ rankOut = Pending
  /\ bayesIn \in [n1 : 1..MaxCount, n2 : 1..MaxCount, a : AllScores,
                   g : {<<h, 2>> : h \in (2 * MinScore)..(2 * MaxScore)}]
  /\ bayesOut = Pending

SpecBayes == InitBayes /\ [][Shrink]_vars

\* The rankings of every history of up to MaxHist ratings; a rating lists
\* distinct artists and distinct genres
RankScores == {2, 5, 9}

NameLists ==
  {[artists |-> <<>>, genres |-> <<>>],
   [artists |-> <<1>>, genres |-> <<1, 2>>],
   [artists |-> <<2>>, genres |-> <<2>>],
   [artists |-> <<1, 2>>, genres |-> <<3>>],
   [artists |-> <<3>>, genres |-> <<2, 1>>],
   [artists |-> Run(1, MaxWide - 3), genres |-> Run(1, MaxWide - 3)],
   [artists |-> Run(1, MaxWide), genres |-> Run(1, MaxWide)]}

RatingRows ==
  {[score |-> s, artists |-> l.artists, genres |-> l.genres] :
     s \in RankScores, l \in NameLists}

InitRank ==
  /\ InitStore
  /\ tz = 0
  /\ token = TRUE
  /\ roundScore = MinScore
  /\ scoresIn = <<>>
  /\ moodOut = Null
  /\ history \in UNION {[1..n -> RatingRows] : n \in 0..MaxHist}
  /\ rankOut = Pending
  /\ bayesIn = [n1 |-> 1, n2 |-> 1, a |-> MinScore, g |-> DefaultAvg]
  /\ bayesOut = Pending

SpecRank == InitRank /\ [][RenderProfile]_vars

----
\* Properties

Resolved(qi) == qi.score # None \/ qi.skipped
PlaylistsOf(qid) == {pl \in daily_playlists : pl.queue_id = qid}
PlaylistItemsOf(plid) == {pi \in daily_playlist_items : pi.playlist_id = plid}

\* C1: a queue is not completed (no completed_at, no mood, no playlist) while one of
\* its items is unresolved; with calls made one after the other, a queue whose k >= 1
\* items are all resolved is completed, with its playlist, by the time the resolving
\* call has returned; and the completing update is applied at most once.
CompletionGated ==
  /\ \A q \in daily_queues :
       (q.completed_at # Null \/ q.mood # Null \/ PlaylistsOf(q.id) # {})
         => \A qi \in QueueItemsOf(q.id) : Resolved(qi)
  /\ Idle(Caller) =>
       \A q \in daily_queues :
         (QueueItemsOf(q.id) # {} /\ \A qi \in QueueItemsOf(q.id) : Resolved(qi))
           => /\ q.completed_at # Null
              /\ q.mood \in Moods
              /\ Cardinality(PlaylistsOf(q.id)) = 1
  /\ completeWrites <= 1

\* C1 witness: a queue of two items completed, once, after both were resolved
CompletionGatedWitness ==
  /\ Idle(Caller)
  /\ completeWrites = 1
  /\ \E q \in daily_queues :
       /\ Cardinality(QueueItemsOf(q.id)) >= 2
       /\ q.completed_at # Null
       /\ PlaylistsOf(q.id) # {}

\* C2: once an ensureDailyQueue call has returned a queue, a later call the same day
\* returns the same queue id and the same items, and no daily_queues or
\* daily_queue_items row is created any more.
IdempotentBuild ==
  [][ensured # NullResult =>
       /\ {q.id : q \in daily_queues'} = {q.id : q \in daily_queues}
       /\ {qi.id : qi \in daily_queue_items'} = {qi.id : qi \in daily_queue_items}
       /\ \A p \in Procs :
            (loc[p].op = "ensure" /\ ~Idle(p) /\ pc'[p] = "idle")
              => result'[p] = ensured]_vars

\* C2 witness: a second ensureDailyQueue call has returned the queue of the first
IdempotentBuildWitness ==
  /\ Idle(Caller)
  /\ loc[Caller].op = "ensure"
  /\ ~loc[Caller].built
  /\ ensured # NullResult
  /\ Len(ensured.items) >= 2
  /\ result[Caller] = ensured

\* C3: a call whose daily_queues insert was refused by the (user_id, date)
\* constraint returns the queue that now exists, not null.
RaceLoserReturnsQueue ==
  \A p \in Procs : (Idle(p) /\ loc[p].qErr) => result[p] # NullResult

\* C4: at most one daily_queues row per (user, date).
OneQueuePerDay ==
  \A q1 \in daily_queues, q2 \in daily_queues :
    (q1.user_id = q2.user_id /\ q1.date = q2.date) => q1 = q2

\* C4 witness: two builds raced, one insert was refused, one row exists
OneQueuePerDayWitness ==
  /\ \E p \in Procs : loc[p].qErr
  /\ \E p \in Procs : loc[p].built
  /\ Cardinality(daily_queues) = 1

\* C5: a queue never has two daily_playlists rows, and a call whose playlist insert
\* was refused returns {} (no playlist), not null.
PlaylistRaceIsClean ==
  /\ \A q \in daily_queues : Cardinality(PlaylistsOf(q.id)) <= 1
  /\ \A p \in Procs : (Idle(p) /\ loc[p].plErr) => result[p] = NoPlaylist

\* C5 witness: two calls saw every item resolved, one insert was refused
PlaylistRaceIsCleanWitness ==
  \E p \in Procs, o \in Procs :
    /\ p # o
    /\ loc[p].allDone /\ loc[o].allDone
    /\ Idle(p) /\ loc[p].plErr
    /\ Cardinality(daily_playlists) = 1

\* C6: the update that sets a queue's mood and completed_at is applied at most once.
CompletedWrittenOnce == completeWrites <= 1

\* Sum of the squares of a list
RECURSIVE SumSquares(_)
SumSquares(s) == IF s = <<>> THEN 0 ELSE Head(s) * Head(s) + SumSquares(Tail(s))

\* The mood policy as the specification words it, from the mean S/n and the population
\* variance Q/n - (S/n)^2: variance >= 2.5^2 iff 4(nQ - S^2) >= 25 n^2
ExpectedMood(s) ==
  LET n == Len(s)
      S == SumSeq(s)
      Q == SumSquares(s)
  IN CASE n = 0 -> "mixed"
       [] n > 0 /\ 4 * (n * Q - S * S) >= 25 * n * n -> "mixed"
       [] n > 0 /\ 4 * (n * Q - S * S) < 25 * n * n /\ 10 * S >= 80 * n -> "hype"
       [] n > 0 /\ 4 * (n * Q - S * S) < 25 * n * n /\ 10 * S < 80 * n
            /\ 10 * S >= 65 * n -> "bright"
       [] n > 0 /\ 4 * (n * Q - S * S) < 25 * n * n /\ 10 * S < 65 * n
            /\ 10 * S >= 45 * n -> "chill"
       [] OTHER -> "moody"

\* C7: a queue a call has just built holds min(10, distinct candidate ids) items, at
\* most 10, no two of the same spotify id.
BoundedSelection ==
  \A p \in Procs :
    (loc[p].built /\ pc[p] \in {"gtq_queue", "gtq_items"}) =>
      LET rows == QueueItemsOf(loc[p].queue)
          tracks == {r.spotify_id : r \in {r \in items : \E qi \in rows : qi.item_id = r.id}}
      IN /\ Cardinality(rows) = Min(QueueSize, Cardinality(Range(loc[p].candidates)))
         /\ Cardinality(rows) <= QueueSize
         /\ Cardinality(tracks) = Cardinality(rows)
         /\ Cardinality({qi.item_id : qi \in rows}) = Cardinality(rows)

\* C7 witness: a pool with a repeated id and more than 10 distinct ids gave 10 items
BoundedSelectionWitness ==
  \E p \in Procs :
    /\ loc[p].built /\ pc[p] = "gtq_items"
    /\ Cardinality(Range(loc[p].candidates)) > QueueSize
    /\ Len(loc[p].candidates) > Cardinality(Range(loc[p].candidates))
    /\ Cardinality(QueueItemsOf(loc[p].queue)) = QueueSize

\* C8: computeMood returns the label of the mood policy for every list of scores,
\* and the labels the specification names for its four examples.
MoodPolicy ==
  moodOut # Null =>
    /\ moodOut = ExpectedMood(scoresIn)
    /\ scoresIn = <<>> => moodOut = "mixed"
    /\ scoresIn = <<9, 9, 9, 9>> => moodOut = "hype"
    /\ scoresIn = <<1, 10, 1, 10>> => moodOut = "mixed"
    /\ scoresIn = <<5, 6, 5, 6>> => moodOut = "chill"

\* C8 witness: the spread rule overriding the mean bucket
MoodPolicyWitness == scoresIn = <<1, 10, 1, 10>> /\ moodOut = "mixed"

\* The scores that count for a queue's mood: those of its items that are not skipped
CountedScores(qid) ==
  LET rows == OrderByPosition({qi \in QueueItemsOf(qid) : qi.score # None /\ ~qi.skipped})
  IN [i \in 1..Len(rows) |-> rows[i].score]

\* C9 (amended): the step that writes a queue's mood writes the mood of the scores
\* of the items that are not skipped at that time, and the step that inserts playlist
\* items inserts none for an item that is skipped at that time, whether or not it
\* carries a score.
SkipExclusion ==
  [][/\ \A q \in daily_queues, r \in daily_queues' :
          (q.id = r.id /\ q.mood # r.mood) => r.mood = ExpectedMood(CountedScores(q.id))
     /\ \A pi \in daily_playlist_items' \ daily_playlist_items :
          \A pl \in daily_playlists, qi \in daily_queue_items :
            (pl.id = pi.playlist_id /\ qi.queue_id = pl.queue_id
               /\ qi.item_id = pi.item_id) => ~qi.skipped]_vars

\* C9 as stated, over every state: no playlist item belongs to a queue item that is
\* skipped. skipDailyItem on an item of a completed queue marks it skipped while its
\* playlist item stays.
SkippedNeverInPlaylist ==
  \A pi \in daily_playlist_items, pl \in daily_playlists, qi \in daily_queue_items :
    (pl.id = pi.playlist_id /\ qi.queue_id = pl.queue_id /\ qi.item_id = pi.item_id)
      => ~qi.skipped

\* C9 witness: a completed queue with a scored and skipped item that is not in the
\* playlist, beside a rated item that is
SkipExclusionWitness ==
  \E q \in daily_queues, pl \in daily_playlists, qi \in daily_queue_items :
    /\ pl.queue_id = q.id /\ qi.queue_id = q.id
    /\ q.completed_at # Null
    /\ qi.skipped /\ qi.score # None
    /\ PlaylistItemsOf(pl.id) # {}
    /\ \A pi \in PlaylistItemsOf(pl.id) : pi.item_id # qi.item_id

\* A list of n copies of one score
Repeat(score, n) == [i \in 1..n |-> score]

\* C10: when every item of the built queue has been rated with roundScore and none
\* skipped, a getDailyStatus call reports 'completed', the mood of the list of
\* those scores, a playlist, and that playlist has one item per rated queue item.
RoundTrip ==
  (Idle(Caller) /\ loc[Caller].op = "status") =>
    \A q \in daily_queues :
      LET rows == QueueItemsOf(q.id)
      IN (q.date = today /\ rows # {} /\ \A qi \in rows : qi.score = roundScore /\ ~qi.skipped)
           => /\ result[Caller].state = "completed"
              /\ result[Caller].queue = q.id
              /\ result[Caller].mood = ExpectedMood(Repeat(roundScore, Cardinality(rows)))
              /\ result[Caller].playlist # None
              /\ Cardinality(PlaylistItemsOf(result[Caller].playlist))
                   = Cardinality({qi \in rows : qi.score # None /\ ~qi.skipped})

\* C10 witness: the status of a two-item queue rated 7 and 7
RoundTripWitness ==
  /\ Idle(Caller) /\ loc[Caller].op = "status"
  /\ roundScore = 7
  /\ result[Caller].state = "completed"
  /\ result[Caller].mood = "bright"
  /\ \E q \in daily_queues :
       /\ Cardinality(QueueItemsOf(q.id)) = 2
       /\ \A qi \in QueueItemsOf(q.id) : qi.score = 7
       /\ Cardinality(PlaylistItemsOf(result[Caller].playlist)) = 2

\* The scores of a playlist's items in position order
PlaylistScores(plid) ==
  LET rows == OrderByPosition({[id |-> pi.item_id, position |-> pi.position,
                                score |-> pi.score] : pi \in PlaylistItemsOf(plid)})
  IN [i \in 1..Len(rows) |-> rows[i].score]

\* C11: the items of a playlist have the positions 0..k-1, each once, and a lower
\* position never has a lower score; the scores 7, 9, 7, 10 give 10, 9, 7, 7.
PlaylistOrdering ==
  \A pl \in daily_playlists :
    LET its == PlaylistItemsOf(pl.id)
        k == Cardinality(its)
    IN /\ {pi.position : pi \in its} = 0..(k - 1)
       /\ \A a \in its, b \in its : a.position < b.position => a.score >= b.score
       /\ \A a \in its, b \in its : a.position = b.position => a = b
       /\ (/\ k = Len(SortExample)
           /\ \A v \in AllScores :
                Cardinality({pi \in its : pi.score = v})
                  = Cardinality({i \in 1..Len(SortExample) : SortExample[i] = v}))
            => PlaylistScores(pl.id) = <<10, 9, 7, 7>>

\* C11 witness: queue items rated 7, 9, 7, 10 in queue order, playlist 10, 9, 7, 7
PlaylistOrderingWitness ==
  \E q \in daily_queues, pl \in daily_playlists :
    /\ pl.queue_id = q.id
    /\ LET rows == OrderByPosition(QueueItemsOf(q.id))
       IN [i \in 1..Len(rows) |-> rows[i].score] = SortExample
    /\ PlaylistScores(pl.id) = <<10, 9, 7, 7>>

\* C12: every playlist item has a score of 7 or above, as the playlist screen says.
OnlySevenPlus ==
  \A pi \in daily_playlist_items : pi.score >= PlaylistThreshold

\* C13: an ensureDailyQueue call that had a token never returns the outcome of the
\* call without a token; a failed build is told apart from a missing credential.
BuildFailedIsDistinct ==
  \A p \in Procs :
    (token /\ Idle(p) /\ loc[p].op = "ensure") => result[p] # NoCredential

\* C14: no call returns a queue without items, whichever write of the build failed.
NoPartialQueue ==
  \A p \in Procs : result[p].kind = "queue" => result[p].items # <<>>

\* C15: a rateDailyItem call whose daily_queue_items update failed has returned null
\* in that very step, the store unchanged: no ratings write, no completion check.
RateFailureStops ==
  [][\A p \in Procs :
       loc'[p].error => /\ pc'[p] = "idle"
                        /\ result'[p] = NullResult
                        /\ db' = db]_vars

\* C15 witness: a failed rate call on a built queue, nothing rated, no history
RateFailureStopsWitness ==
  /\ Idle(Caller)
  /\ loc[Caller].op = "rate" /\ loc[Caller].error
  /\ result[Caller] = NullResult
  /\ daily_queue_items # {}
  /\ \A qi \in daily_queue_items : qi.score = None
  /\ ratings = <<>>

\* C16: when no call is in flight, the ratings history holds, for every queue item
\* that carries a score, one row of its item with that score: each rateDailyItem
\* call that returned a result has left its score in the history.
RatingsMirrorScores ==
  Idle(Caller) =>
    \A qi \in daily_queue_items :
      qi.score # None => /\ qi.item_id \in DOMAIN ratings
                         /\ ratings[qi.item_id] = qi.score

\* C17: the update of a skipDailyItem call sets the skipped flag of one queue item
\* and nothing else; the rest of the call writes neither queue items nor ratings.
SkipFrame ==
  [][\A p \in Procs :
       /\ (Idle(p) /\ pc'[p] # "idle" /\ loc'[p].op = "skip") =>
            /\ ratings' = ratings
            /\ items' = items
            /\ daily_queues' = daily_queues
            /\ daily_playlists' = daily_playlists
            /\ daily_playlist_items' = daily_playlist_items
            /\ \E t \in daily_queue_items :
                 daily_queue_items' =
                   (daily_queue_items \ {t}) \cup {[t EXCEPT !.skipped = TRUE]}
       /\ (~Idle(p) /\ loc[p].op = "skip") =>
            /\ ratings' = ratings
            /\ daily_queue_items' = daily_queue_items]_vars

\* C17 witness: a skip call has returned and an item is skipped that keeps its score,
\* its rated_at and its row in the ratings history
SkipFrameWitness ==
  /\ Idle(Caller) /\ loc[Caller].op = "skip"
  /\ \E qi \in daily_queue_items :
       /\ qi.skipped /\ qi.score # None /\ qi.rated_at = Stamp
       /\ qi.item_id \in DOMAIN ratings
       /\ ratings[qi.item_id] = qi.score
  /\ \E qi \in daily_queue_items : ~qi.skipped

\* C18: a completion check that starts on a completed queue takes the completed_at
\* branch, writes no queue, playlist or playlist item, and returns the playlist
\* that exists.
CompletedCheckReadOnly ==
  [][\A p \in Procs :
       LET done == \E q \in TodayQueueRow : q.completed_at # Null
       IN /\ (pc[p] = "check_queue" /\ pc'[p] # "check_queue" /\ done)
               => pc'[p] = "check_existing"
          /\ (pc[p] \in {"check_queue", "check_existing"} /\ done)
               => /\ daily_queues' = daily_queues
                  /\ daily_playlists' = daily_playlists
                  /\ daily_playlist_items' = daily_playlist_items
          /\ (pc[p] = "check_existing" /\ pc'[p] = "idle")
               => \E pl \in daily_playlists :
                    /\ pl.queue_id = loc[p].queue
                    /\ result'[p] = [kind |-> "check", playlist |-> pl.id]]_vars

\* C18 witness: a rate or skip call after completion has returned the playlist
CompletedCheckReadOnlyWitness ==
  /\ Idle(Caller)
  /\ loc[Caller].op \in {"rate", "skip"}
  /\ ~loc[Caller].allDone
  /\ result[Caller].kind = "check"
  /\ result[Caller].playlist # None
  /\ completeWrites = 1

\* A queue all of whose items are skipped and none of which was ever rated
AllSkipped(qid) ==
  /\ QueueItemsOf(qid) # {}
  /\ \A qi \in QueueItemsOf(qid) : qi.skipped /\ qi.score = None

\* C19, the states: once the calls have returned, a queue whose items are all
\* skipped is completed with mood 'mixed' and has a playlist of mood 'mixed' without
\* items, which skipDailyItem, getTodayPlaylist and getDailyStatus report.
EmptyPlaylistStates ==
  Idle(Caller) =>
    \A q \in daily_queues :
      AllSkipped(q.id) =>
        /\ q.completed_at # Null
        /\ q.mood = "mixed"
        /\ \E pl \in daily_playlists :
             /\ pl.queue_id = q.id
             /\ pl.mood = "mixed"
             /\ PlaylistItemsOf(pl.id) = {}
             /\ loc[Caller].op = "skip" => result[Caller] = WithPlaylist(pl.id)
             /\ loc[Caller].op = "playlist" =>
                  result[Caller] = [kind |-> "playlist", playlist |-> pl.id,
                                    items |-> <<>>]
             /\ loc[Caller].op = "status" =>
                  /\ result[Caller].state = "completed"
                  /\ result[Caller].playlist = pl.id

\* C19, the steps: a completion that finds no non-skipped scored item writes mood
\* 'mixed', inserts the playlist with mood 'mixed', returns it and inserts no items.
EmptyPlaylistSteps ==
  /\ \A q \in daily_queues, r \in daily_queues' :
       (q.id = r.id /\ q.completed_at = Null /\ r.completed_at # Null
          /\ CountedScores(q.id) = <<>>) => r.mood = "mixed"
  /\ \A pl \in daily_playlists' \ daily_playlists :
       CountedScores(pl.queue_id) = <<>> =>
         /\ pl.mood = "mixed"
         /\ daily_playlist_items' = daily_playlist_items
         /\ \E p \in Procs : pc'[p] = "idle" /\ result'[p] = WithPlaylist(pl.id)
  /\ \A pi \in daily_playlist_items' \ daily_playlist_items :
       \A pl \in daily_playlists :
         pl.id = pi.playlist_id => CountedScores(pl.queue_id) # <<>>

\* C19: when every item of a queue is skipped, completion still creates the playlist
\* row, with mood 'mixed' and no items, and readers see a playlist with an empty
\* item list.
EmptyPlaylist == []EmptyPlaylistStates /\ [][EmptyPlaylistSteps]_vars

\* C19 witness: getTodayPlaylist has returned the empty playlist of a queue of two
\* skipped items
EmptyPlaylistWitness ==
  /\ Idle(Caller) /\ loc[Caller].op = "playlist"
  /\ result[Caller].kind = "playlist"
  /\ result[Caller].items = <<>>
  /\ \E q \in daily_queues :
       /\ AllSkipped(q.id)
       /\ Cardinality(QueueItemsOf(q.id)) >= 2
       /\ q.mood = "mixed"

\* C20: a daily_playlists row exists only for a queue whose completed_at is set, and
\* getTodayPlaylist returns a playlist only of such a queue.
PlaylistGated ==
  /\ \A pl \in daily_playlists :
       \E q \in daily_queues : q.id = pl.queue_id /\ q.completed_at # Null
  /\ \A p \in Procs :
       result[p].kind = "playlist" =>
         \E pl \in daily_playlists, q \in daily_queues :
           /\ pl.id = result[p].playlist
           /\ q.id = pl.queue_id /\ q.completed_at # Null

\* C21: the shrinkage score of an entity rated count times with the total
\* sum_of_scores is (sum_of_scores + 3 * global_mean) / (count + 3); for a fixed
\* global mean g and a fixed raw average a other than g, a larger count gives a score
\* strictly further from g and strictly nearer to a, and never beyond a; so an
\* average of 10 seen once scores below an average of 10 seen ten times when g < 10
ShrinkageOf(n) ==
  <<n * bayesIn.a * bayesIn.g[2] + 3 * bayesIn.g[1], (n + 3) * bayesIn.g[2]>>

ShrinkageMonotone ==
  bayesOut.kind = "scores" =>
    LET a == Whole(bayesIn.a)
        g == bayesIn.g
        low == bayesOut.low
        high == bayesOut.high
    IN /\ Same(low, ShrinkageOf(bayesIn.n1))
       /\ Same(high, ShrinkageOf(bayesIn.n2))
       /\ (bayesIn.n1 < bayesIn.n2 /\ Less(g, a)) =>
            (Less(g, low) /\ Less(low, high) /\ Less(high, a))
       /\ (bayesIn.n1 < bayesIn.n2 /\ Less(a, g)) =>
            (Less(a, high) /\ Less(high, low) /\ Less(low, g))
       /\ (bayesIn.n1 = 1 /\ bayesIn.n2 = 10 /\ bayesIn.a = 10 /\ Less(g, Whole(10))) =>
            Less(low, high)

ShrinkageMonotoneWitness ==
  /\ bayesOut.kind = "scores"
  /\ bayesIn.n1 = 1
  /\ bayesIn.n2 = 10
  /\ bayesIn.a = 10
  /\ bayesIn.g = DefaultAvg
  /\ Less(bayesOut.low, bayesOut.high)

\* C22: computeTopArtists and computeTopGenres return entities that appear in at
\* least one rating, each once, with the count and the average of exactly the
\* ratings that list it, in non-increasing order of the shrinkage score toward the
\* mean of the whole history, cut to the 7 (artists) or 10 (genres) best
NamesIn(field) == UNION {Range(history[i][field]) : i \in 1..Len(history)}

CountOf(field, a) ==
  Cardinality({i \in 1..Len(history) : a \in Range(history[i][field])})

TotalOf(field, a) ==
  SumSeq([i \in 1..Len(history) |->
            IF a \in Range(history[i][field]) THEN history[i].score ELSE 0])

HistoryMean == <<SumSeq([i \in 1..Len(history) |-> history[i].score]), Len(history)>>

AdjustedOf(field, a) ==
  <<TotalOf(field, a) * HistoryMean[2] + 3 * HistoryMean[1],
    (CountOf(field, a) + 3) * HistoryMean[2]>>

Ranked(out, field, limit) ==
  /\ \A i \in 1..Len(out) :
       /\ out[i].name \in NamesIn(field)
       /\ out[i].count = CountOf(field, out[i].name)
       /\ Same(out[i].avgScore, <<TotalOf(field, out[i].name), CountOf(field, out[i].name)>>)
  /\ \A i, j \in 1..Len(out) : i < j =>
       /\ out[i].name # out[j].name
       /\ ~Less(AdjustedOf(field, out[i].name), AdjustedOf(field, out[j].name))
  /\ Len(out) = Min(limit, Cardinality(NamesIn(field)))
  /\ \A a \in NamesIn(field) \ {out[i].name : i \in 1..Len(out)} :
       \A i \in 1..Len(out) : ~Less(AdjustedOf(field, out[i].name), AdjustedOf(field, a))

TopRanked ==
  rankOut.kind = "ranked" =>
    /\ Ranked(rankOut.artists, "artists", 7)
    /\ Ranked(rankOut.genres, "genres", 10)

TopRankedWitness ==
  /\ rankOut.kind = "ranked"
  /\ Cardinality(NamesIn("artists")) > 10
  /\ Len(rankOut.artists) = 7
  /\ Len(rankOut.genres) = 10
  /\ Less(AdjustedOf("genres", rankOut.genres[10].name),
          AdjustedOf("genres", rankOut.genres[1].name))
  /\ \E a \in NamesIn("artists") \ {rankOut.artists[i].name : i \in 1..7} :
       Less(AdjustedOf("artists", a), AdjustedOf("artists", rankOut.artists[7].name))

\* C23: of two artists, or two genres, with equal shrinkage scores the one with the
\* higher count comes first, and with equal counts too the one with the higher
\* average, whatever the order in which the history lists them
TieOrder(out, field) ==
  \A i, j \in 1..Len(out) :
    (i < j /\ Same(AdjustedOf(field, out[i].name), AdjustedOf(field, out[j].name))) =>
      \/ out[i].count > out[j].count
      \/ /\ out[i].count = out[j].count
         /\ ~Less(out[i].avgScore, out[j].avgScore)

TiesByCountThenAverage ==
  rankOut.kind = "ranked" =>
    /\ TieOrder(rankOut.artists, "artists")
    /\ TieOrder(rankOut.genres, "genres")

\* C24: once the playlist insert of a queue has failed, no completion check of a
\* later rate or skip call reaches the playlist insert for that queue again
InsertNotRetried ==
  \A p \in Procs :
    pc[p] = "check_insert_playlist" => loc[p].queue \notin insertFailed

\* C25: in every reachable state, also while completion checks and re-ratings of
\* two clients interleave, the mood of each daily_playlists row is the mood stored
\* on its queue
PlaylistMoodIsQueueMood ==
  \A pl \in daily_playlists :
    \A q \in daily_queues : q.id = pl.queue_id => q.mood = pl.mood

\* C26 as stated: no step changes the score, the skipped flag or rated_at of a queue
\* item that is already resolved
ResolvedNotMutated ==
  [][\A qi \in daily_queue_items : Resolved(qi) => qi \in daily_queue_items']_vars

\* C26: the first resolution of a queue item is final for completion counting: no
\* step clears a score or a rated_at, unsets a skipped flag, or changes the item's
\* queue, catalog item or position, so a resolved item stays resolved; a further
\* rate call may overwrite the score and a further skip call may set skipped
ResolutionIsFinal ==
  [][\A qi \in daily_queue_items :
       \E qj \in daily_queue_items' :
         /\ qj.id = qi.id
         /\ qj.queue_id = qi.queue_id
         /\ qj.item_id = qi.item_id
         /\ qj.position = qi.position
         /\ qi.score # None => qj.score # None
         /\ qi.rated_at # Null => qj.rated_at # Null
         /\ qi.skipped => qj.skipped
         /\ Resolved(qi) => Resolved(qj)]_vars

ResolutionIsFinalWitness ==
  \E qi \in daily_queue_items :
    /\ qi.score # None
    /\ qi.skipped
    /\ \A p \in Procs : Idle(p)

\* C27: the items of a built queue have the positions 0..k-1, k being the number of
\* items inserted, each once, also when a selected track had no catalog row and was
\* dropped
DensePositions ==
  \A q \in daily_queues :
    LET its == QueueItemsOf(q.id)
    IN /\ {qi.position : qi \in its} = 0..(Cardinality(its) - 1)
       /\ \A a, b \in its : a.position = b.position => a = b

\* C28: ensureDailyQueue returns the queue of the user's local calendar day: two
\* calls on the same local day return the same queue and calls on different local
\* days return different queues, whatever the offset of local time from UTC
LocalDayQueue ==
  \A a, b \in ensuredDay : (a[1] = b[1]) <=> (a[2] = b[2])

\* C29: an ensureDailyQueue call that finds a queue for (user, today) goes straight
\* to getTodayQueue, so it reads no credential and asks no candidate source or tag
\* lookup; it writes nothing to items, daily_queues or daily_queue_items and returns
\* that queue, with or without a credential
ShortCircuit ==
  [][\A p \in Procs :
       /\ (Idle(p) /\ pc'[p] # "idle" /\ loc'[p].op = "ensure" /\ TodayQueueRow # {})
            => (pc'[p] = "gtq_queue" /\ db' = db)
       /\ (pc[p] \in {"gtq_queue", "gtq_items"} /\ loc[p].op = "ensure"
             /\ ~loc[p].built /\ pc'[p] # pc[p])
            => /\ pc'[p] \in {"gtq_items", "idle"}
               /\ items' = items
               /\ daily_queues' = daily_queues
               /\ daily_queue_items' = daily_queue_items
               /\ pc'[p] = "idle" =>
                    /\ result'[p].kind = "queue"
                    /\ result'[p].queue = Row(TodayQueueRow).id]_vars

ShortCircuitWitness ==
  /\ ~token
  /\ Idle(Caller)
  /\ loc[Caller].op = "ensure"
  /\ ~loc[Caller].built
  /\ result[Caller].kind = "queue"
  /\ Len(result[Caller].items) >= 1

\* C30: with a credential, an ensureDailyQueue call whose deduplicated candidate
\* pool is empty returns null from the selection check without attempting a write:
\* no items, daily_queues or daily_queue_items row is created, the day still has no
\* queue, and the call goes on to the writes only with a non-empty selection, so a
\* later call builds the queue as a first call would
EmptyPoolFails ==
  [][\A p \in Procs :
       (pc[p] = "ensure_fetch" /\ token /\ pc'[p] # pc[p]) =>
         /\ db' = db
         /\ TodayQueueRow' = {}
         /\ pc'[p] \in {"idle", "ensure_upsert"}
         /\ pc'[p] = "idle" => result'[p] = NullResult
         /\ pc'[p] = "ensure_upsert" =>
              /\ loc'[p].selected # <<>>
              /\ Dedup(loc'[p].candidates) # <<>>]_vars

EmptyPoolFailsWitness ==
  /\ token
  /\ Idle(Caller)
  /\ loc[Caller].op = "ensure"
  /\ result[Caller] = NullResult
  /\ items = {}
  /\ daily_queues = {}
  /\ daily_queue_items = {}

\* C31: skipDailyItem is best-effort: a call whose daily_queue_items update failed
\* does not return null; it leaves the queue items as they were (the item stays
\* pending), goes on to the completion check and returns what the check returns
SkipBestEffort ==
  [][\A p \in Procs :
       /\ (Idle(p) /\ loc'[p].op = "skip" /\ loc'[p].skipErr /\ loc'[p] # loc[p]) =>
            /\ pc'[p] = "check_queue"
            /\ daily_queue_items' = daily_queue_items
       /\ (~Idle(p) /\ loc[p].op = "skip" /\ loc[p].skipErr) =>
            /\ daily_queue_items' = daily_queue_items
            /\ pc'[p] \in {"check_existing", "check_items", "check_complete",
                            "check_insert_playlist", "check_insert_items", "idle"}
            /\ pc'[p] = "idle" => result'[p].kind = "check"]_vars

SkipBestEffortWitness ==
  /\ Idle(Caller)
  /\ loc[Caller].op = "skip"
  /\ loc[Caller].skipErr
  /\ result[Caller] = NoPlaylist
  /\ \E qi \in daily_queue_items : ~Resolved(qi)
  /\ \A qi \in daily_queue_items : ~qi.skipped

\* C32: of two playlist items with equal scores, the one whose track has the lower
\* position in the queue has the lower position in the playlist, in whatever order
\* the store returned the queue items
QueuePositionOf(qid, item) ==
  (CHOOSE qi \in QueueItemsOf(qid) : qi.item_id = item).position

TiesByQueuePosition ==
  \A pl \in daily_playlists :
    \A a, b \in PlaylistItemsOf(pl.id) :
      (a.score = b.score /\ a.position < b.position) =>
        QueuePositionOf(pl.queue_id, a.item_id) < QueuePositionOf(pl.queue_id, b.item_id)

\* C33: getDailyStatus returns 'none' exactly when there is no queue for (user,
\* today), 'completed' exactly when that queue's completed_at is set, and otherwise
\* 'in_progress' with total the number of the queue's items and rated the number of
\* them that have a score or are skipped, so 0 <= rated <= total
StatusReflectsStore ==
  (Idle(Caller) /\ loc[Caller].op = "status") =>
    LET r == result[Caller]
        q == TodayQueueRow
    IN /\ r.kind = "status"
       /\ r.state \in {"none", "in_progress", "completed"}
       /\ r.state = "none" <=> q = {}
       /\ r.state = "completed" <=> (q # {} /\ Row(q).completed_at # Null)
       /\ r.state = "in_progress" =>
            LET its == QueueItemsOf(Row(q).id)
            IN /\ r.queue = Row(q).id
               /\ r.total = Cardinality(its)
               /\ r.rated = Cardinality({qi \in its : Resolved(qi)})
               /\ 0 <= r.rated
               /\ r.rated <= r.total

StatusReflectsStoreWitness ==
  /\ Idle(Caller)
  /\ loc[Caller].op = "status"
  /\ result[Caller].state = "in_progress"
  /\ result[Caller].total = 2
  /\ result[Caller].rated = 1
  /\ \E qi \in daily_queue_items : qi.skipped /\ qi.score = None

SubmitFailureKeepsItem ==
  [][/\ (screen.stage = "submit" /\ screen'.stage # "submit") =>
          /\ ~screen'.submitting
          /\ result[Caller] = NullResult =>
               /\ screen'.currentIndex = screen.currentIndex
               /\ screen'.items = screen.items
               /\ screen'.route = screen.route
               /\ screen'.stage = "ready"
               /\ CurrentRows' = CurrentRows
          /\ screen'.currentIndex # screen.currentIndex =>
               /\ result[Caller].kind = "check"
               /\ screen'.currentIndex > screen.currentIndex
     /\ screen'.currentIndex # screen.currentIndex =>
          screen.stage \in {"submit", "skip", "load_get", "load_ensure", "failed"}]_vars

SubmitFailureKeepsItemWitness ==
  /\ screen.stage = "ready"
  /\ ~screen.submitting
  /\ Idle(Caller)
  /\ loc[Caller].op = "rate"
  /\ loc[Caller].error
  /\ result[Caller] = NullResult
  /\ screen.currentIndex = 1
  /\ \E qi \in CurrentRows : qi.score = None /\ ~qi.skipped

\* C36: when the last two pending items of a queue are resolved by two concurrent
\* rate/skip calls on distinct items, every write succeeding, each resolution is in
\* the store from its write on, and once both calls have returned the queue is
\* completed with exactly one playlist, at least one of the two checks having seen
\* every item resolved
Resolving(p) == loc[p].op \in {"rate", "skip"}

ConcurrentLastTwo ==
  /\ \A p \in Procs :
       Resolving(p) =>
         \E qi \in daily_queue_items :
           /\ qi.position = p - 1
           /\ IF loc[p].op = "rate" THEN qi.score = MaxScore /\ ~qi.skipped
                                    ELSE qi.skipped /\ qi.score = None
  /\ (\A p \in Procs : Resolving(p) /\ Idle(p)) =>
       /\ \E p \in Procs : loc[p].allDone
       /\ \A q \in daily_queues :
            /\ q.completed_at # Null
            /\ q.mood # Null
            /\ Cardinality(PlaylistsOf(q.id)) = 1

ConcurrentLastTwoWitness ==
  /\ \A p \in Procs : Resolving(p) /\ Idle(p) /\ loc[p].allDone
  /\ completeWrites = 2
  /\ \E p \in Procs : loc[p].plErr
  /\ Cardinality(daily_playlists) = 1

\* C37: the completion check of a rate or skip call evaluates the queue that owns
\* the item: once a call that resolved the last pending item of a queue has
\* returned, that queue is completed, whatever todayDate() returns by then
FullyResolved(q) ==
  /\ QueueItemsOf(q.id) # {}
  /\ \A qi \in QueueItemsOf(q.id) : Resolved(qi)

OwningQueueCompletes ==
  (Idle(Caller) /\ Resolving(Caller)) =>
    \A q \in daily_queues : FullyResolved(q) => q.completed_at # Null

\* C38: resolution is monotonic: an item that is resolved stays resolved under
\* every later rate or skip call, so the number of resolved items of a queue never
\* decreases, and a queue that has a completed_at keeps one (it never returns to
\* in_progress)
ResolvedIn(table, qid) ==
  Cardinality({qi \in table : qi.queue_id = qid /\ Resolved(qi)})

ResolutionMonotone ==
  [][/\ \A qi \in daily_queue_items :
          Resolved(qi) => \E qj \in daily_queue_items' : qj.id = qi.id /\ Resolved(qj)
     /\ \A q \in daily_queues :
          /\ ResolvedIn(daily_queue_items', q.id) >= ResolvedIn(daily_queue_items, q.id)
          /\ q.completed_at # Null =>
               \E r \in daily_queues' : r.id = q.id /\ r.completed_at # Null]_vars

ResolutionMonotoneWitness ==
  /\ Idle(Caller)
  /\ loc[Caller].op = "skip"
  /\ \E q \in daily_queues :
       /\ q.completed_at # Null
       /\ \E qi \in QueueItemsOf(q.id) : qi.score # None /\ qi.skipped
       /\ ResolvedIn(daily_queue_items, q.id) = Cardinality(QueueItemsOf(q.id))

\* C39: in every reachable state the mood of a queue is null exactly when its
\* completed_at is null, and a mood that is not null is one of hype, bright, chill,
\* moody, mixed
MoodWithCompletion ==
  \A q \in daily_queues :
    /\ (q.mood = Null) <=> (q.completed_at = Null)
    /\ q.mood # Null => q.mood \in Moods

MoodWithCompletionWitness ==
  /\ Idle(Caller)
  /\ loc[Caller].allDone
  /\ completeWrites > 0
  /\ \E q \in daily_queues : q.completed_at # Null /\ q.mood \in Moods

====
